---- MODULE Spec2Model ----
(***************************************************************************)
(* Model of CommodityPriceTracker (src/commodity_price_tracker.py): the    *)
(* fetch pass, the per-category sheet synchronization with its             *)
(* week-over-week (WoW) computation, and the retry loop of run().          *)
(*                                                                         *)
(* Prices are whole numbers (a subset of the floats the program handles).  *)
(* A WoW quotient (C - P) / P is kept as the pair of its numerator and     *)
(* denominator, so that equality of quotients is cross-multiplication.     *)
(* The remote spreadsheet is a map from category to a sheet; a store call  *)
(* either succeeds or raises and, when it raises, leaves the sheet as it   *)
(* was.                                                                    *)
(***************************************************************************)
EXTENDS Integers, Sequences, FiniteSets, TLC

\* ------------------------------------------------------------------ bounds
\* Fetched and stored prices range over 1..MaxPrice (0 is a stored value too).
MaxPrice == 2
\* A sheet found by update_google_sheet holds at most MaxPriorRows data rows.
MaxPriorRows == 2

\* ------------------------------------------------------- program constants
\* run(): max_retries = 3
max_retries == 3
fetch_max_retries_Four == 2 + 2

\* fetch_commodity_prices(): max_retries = 3 (per instrument)
fetch_max_retries == 3

\* ------------------------------------------------------------- cell values
\* A Python value held in a snapshot, an output row or a sheet cell.
Num(n) == [num |-> n]
Str(s) == [str |-> s]
\* The float (a - b) / b, kept as numerator and denominator.
Ratio(a, b) == [rn |-> a, rd |-> b]
\* Python's None
None == [none |-> TRUE]

IsNum(c) == DOMAIN c = {"num"}
IsStr(c) == DOMAIN c = {"str"}
IsRatio(c) == DOMAIN c = {"rn", "rd"}
IsNone(c) == DOMAIN c = {"none"}

NA == Str("N/A")

\* str.endswith
EndsWith(s, suffix) ==
    /\ Len(s) >= Len(suffix)
    /\ SubSeq(s, Len(s) - Len(suffix) + 1, Len(s)) = suffix

\* ------------------------------------------------ ordered dicts (Python 3.7+)
\* A dict is the sequence of its <<key, value>> items in insertion order.
DictHas(d, k) == \E i \in 1..Len(d) : d[i][1] = k
DictGet(d, k) == d[CHOOSE i \in 1..Len(d) : d[i][1] = k][2]
\* d[k] = v: replaces the value of an existing key in place, else appends
DictSet(d, k, v) ==
    IF DictHas(d, k)
    THEN [i \in 1..Len(d) |-> IF d[i][1] = k THEN <<k, v>> ELSE d[i]]
    ELSE Append(d, <<k, v>>)

\* ------------------------------------------------------- text <-> number
\* The texts float() accepts, within the bounds: the decimal numerals of
\* 0..MaxPrice and "0.0".
NumericTexts == {ToString(n) : n \in 0..MaxPrice} \cup {"0.0"}
\* float(s) raises ValueError exactly when ~FloatOk(s)
FloatOk(s) == s \in NumericTexts
FloatVal(s) ==
    IF s = "0.0" THEN 0 ELSE CHOOSE n \in 0..MaxPrice : ToString(n) = s

\* What get_all_values() returns for a stored cell: always a text.  A WoW
\* quotient comes back as a formatted text that is no numeral.
RenderCell(c) ==
    IF IsNum(c) THEN ToString(c.num)
    ELSE IF IsStr(c) THEN c.str
    ELSE ToString(c.rn) \o "/" \o ToString(c.rd) \o "%"
RenderRow(r) == [i \in 1..Len(r) |-> RenderCell(r[i])]
\* worksheet.get_all_values()
get_all_values(rows) == [i \in 1..Len(rows) |-> RenderRow(rows[i])]

\* ------------------------------------------------------------------ catalog
\* self.symbols, restricted to the categories 'Metals' and 'Crypto' (in
\* their declaration order); each instrument is <<symbol, display_name>>.
symbols ==
    << <<"Metals", << <<"GC=F", "Gold">>, <<"SI=F", "Silver">> >> >>,
       <<"Crypto", << <<"BTC-USD", "Bitcoin">> >> >> >>

Categories == {symbols[i][1] : i \in 1..Len(symbols)}
InstrumentsOf(category) ==
    symbols[CHOOSE i \in 1..Len(symbols) : symbols[i][1] = category][2]
\* The source symbols of all instruments
AllSymbols ==
    UNION {{InstrumentsOf(c)[j][1] : j \in 1..Len(InstrumentsOf(c))} :
              c \in Categories}

DisplayNames(category) ==
    [i \in 1..Len(InstrumentsOf(category)) |-> InstrumentsOf(category)[i][2]]

\* datetime.now().strftime("%Y-%m-%d") of this run, and an earlier date
current_date == "2024-01-08"
earlier_date == "2024-01-01"

\* ---------------------------------------------------------- commentary
\* analyze_category(category, prices_dict), for the modelled categories
analyze_category(category, prices_dict) ==
    LET get(k) == IF DictHas(prices_dict, k) THEN DictGet(prices_dict, k) ELSE NA
    IN  IF category = "Metals" /\ get("Gold") # NA
        THEN IF get("Gold").num > 2000
             THEN "Gold at premium levels. Safe-haven demand strong."
             ELSE "Gold trading below key $2000 level. Monitor Fed policy."
        ELSE IF category = "Crypto" /\ get("Bitcoin") # NA
        THEN IF get("Bitcoin").num > 40000
             THEN "BTC maintaining strength above 40K. Institutional interest remains."
             ELSE "BTC below 40K threshold. Market sentiment cautious."
        ELSE "Insufficient data for detailed analysis"

\* ----------------------------------------------------------- delta engine
\* Lines 257-265: last_week_prices from the rows read.  The result is
\* [error, prices]; error = "ValueError" when float() rejects a cell.
RECURSIVE LastWeekFrom(_, _, _, _)
LastWeekFrom(headers, last_row, idx, acc) ==
    IF idx > Len(headers) THEN [error |-> "none", prices |-> acc]
    ELSE LET header == headers[idx] IN
         IF header \notin {"Date", "Market Analysis"} /\ ~EndsWith(header, "WoW")
         THEN IF last_row[idx] # "N/A"
              THEN IF FloatOk(last_row[idx])
                   THEN LastWeekFrom(headers, last_row, idx + 1,
                            DictSet(acc, header, Num(FloatVal(last_row[idx]))))
                   ELSE [error |-> "ValueError", prices |-> acc]
              ELSE LastWeekFrom(headers, last_row, idx + 1,
                                DictSet(acc, header, None))
         ELSE LastWeekFrom(headers, last_row, idx + 1, acc)

LastRowOf(existing) == existing[Len(existing)]

ParseLastWeek_HeaderAsRow(existing) ==
    IF Len(existing) > 0
    THEN LastWeekFrom(existing[1], LastRowOf(existing), 1, <<>>)
    ELSE [error |-> "none", prices |-> <<>>]

ParseLastWeek(existing) ==
    IF Len(existing) > 1
    THEN LastWeekFrom(existing[1], LastRowOf(existing), 1, <<>>)
    ELSE [error |-> "none", prices |-> <<>>]

\* Lines 281-288: the WoW cell of one field.  float(current_price) is
\* evaluated before the division, so a non-numeric current value gives
\* ValueError (caught: 'N/A') even when the prior value is 0; a numeric
\* current value over a prior 0 gives ZeroDivisionError, which the
\* except (ValueError, TypeError) clause does not catch.
WoWChange_Percent(current_price, prior) ==
    [error |-> "none",
     cell |-> Ratio(100 * (current_price.num - prior.num), prior.num)]

WoWChange(current_price, prior) ==
    [error |-> "none", cell |-> Ratio(current_price.num - prior.num, prior.num)]

WoWCell(header, current_price, last_week_prices) ==
    IF DictHas(last_week_prices, header) /\ ~IsNone(DictGet(last_week_prices, header))
    THEN LET prior == DictGet(last_week_prices, header) IN
         IF ~IsNum(current_price) THEN [error |-> "none", cell |-> NA]
         ELSE IF prior.num = 0 THEN [error |-> "ZeroDivisionError", cell |-> NA]
         ELSE WoWChange(current_price, prior)
    ELSE [error |-> "none", cell |-> NA]

\* Lines 268-291: new_headers and new_row from the snapshot prices[0]
RECURSIVE BuildFrom(_, _, _, _, _)
BuildFrom(snapshot, last_week_prices, i, hdrs, row) ==
    IF i > Len(snapshot)
    THEN [error |-> "none", new_headers |-> hdrs, new_row |-> row]
    ELSE LET header == snapshot[i][1]
             value == snapshot[i][2]
         IN  IF header \notin {"Date", "Market Analysis"}
             THEN LET w == WoWCell(header, value, last_week_prices) IN
                  IF w.error # "none"
                  THEN [error |-> w.error, new_headers |-> hdrs, new_row |-> row]
                  ELSE BuildFrom(snapshot, last_week_prices, i + 1,
                                 hdrs \o <<header, header \o " WoW">>,
                                 row \o <<value, w.cell>>)
             ELSE BuildFrom(snapshot, last_week_prices, i + 1,
                            Append(hdrs, header), Append(row, value))

BuildRow_WoWAtEnd(snapshot, last_week_prices) ==
    LET built == BuildFrom(snapshot, last_week_prices, 1, <<>>, <<>>)
        IsWoW(h) == EndsWith(h, " WoW")
        IsPlain(h) == ~EndsWith(h, " WoW")
    IN  [built EXCEPT !.new_headers =
            SelectSeq(built.new_headers, IsPlain) \o
            SelectSeq(built.new_headers, IsWoW)]

BuildRow(snapshot, last_week_prices) ==
    BuildFrom(snapshot, last_week_prices, 1, <<>>, <<>>)

\* -------------------------------------------------------------- snapshots
\* category_data as fetch_commodity_prices builds it: Date, one item per
\* instrument, Market Analysis.  vals[i] is the value of instrument i.
RECURSIVE WithFields(_, _, _, _)
WithFields(d, names, vals, i) ==
    IF i > Len(names) THEN d
    ELSE WithFields(DictSet(d, names[i], vals[i]), names, vals, i + 1)

SnapshotOf(category, vals) ==
    LET fields == WithFields(<< <<"Date", Str(current_date)>> >>,
                             DisplayNames(category), vals, 1)
    IN  DictSet(fields, "Market Analysis",
                Str(analyze_category(category, fields)))

\* The values an instrument can have in a snapshot
SnapshotValues == {Num(p) : p \in 1..MaxPrice} \cup {NA}
Snapshots(category) ==
    {SnapshotOf(category, vals) :
        vals \in [1..Len(DisplayNames(category)) -> SnapshotValues]}

\* ------------------------------------------------------------ remote sheets
\* A sheet of the spreadsheet: absent, or its rows of cells.
NoSheet == [exists |-> FALSE, rows |-> <<>>]
SheetWith(rows) == [exists |-> TRUE, rows |-> rows]

\* What a cell under an instrument's header can hold before the run
PriorCells == {Num(p) : p \in 0..MaxPrice} \cup {NA, Str("abc")}

\* Header rows a sheet can carry: "wow" is the one update_google_sheet
\* writes, "plain" the snapshot's own keys (no WoW columns).
PriorHeader(category, layout) ==
    LET names == DisplayNames(category)
        n == Len(names)
    IN  IF layout = "wow"
        THEN <<Str("Date")>>
             \o [j \in 1..(2 * n) |->
                    IF j % 2 = 1 THEN Str(names[(j + 1) \div 2])
                    ELSE Str(names[j \div 2] \o " WoW")]
             \o <<Str("Market Analysis")>>
        ELSE <<Str("Date")>> \o [j \in 1..n |-> Str(names[j])]
             \o <<Str("Market Analysis")>>

PriorRow(category, layout, vals) ==
    LET n == Len(DisplayNames(category))
    IN  IF layout = "wow"
        THEN <<Str(earlier_date)>>
             \o [j \in 1..(2 * n) |->
                    IF j % 2 = 1 THEN vals[(j + 1) \div 2] ELSE NA]
             \o <<Str("Insufficient data for detailed analysis")>>
        ELSE <<Str(earlier_date)>> \o vals
             \o <<Str("Insufficient data for detailed analysis")>>

\* The same for the sheets run() starts from: a text that is no numeral,
\* zero and a price.
RunPriorCells == {Str("abc"), Num(0), Num(MaxPrice)}

\* The rows whose instrument cells are drawn from cells
RowsWith(category, layout, cells) ==
    {PriorRow(category, layout, vals) :
        vals \in [1..Len(DisplayNames(category)) -> cells]}
\* The rows whose instrument cells all hold one value
UniformRows(category, layout) ==
    {PriorRow(category, layout, [j \in 1..Len(DisplayNames(category)) |-> v]) :
        v \in PriorCells}

\* Sheets without a data row: no sheet, an empty sheet, a header row only
BareSheets(category) ==
    {NoSheet, SheetWith(<<>>), SheetWith(<<PriorHeader(category, "wow")>>)}
\* Sheets with a header row and 1..maxRows data rows, the last one drawn
\* from lastRows and the older ones uniform
FilledSheets(category, layout, lastRows, maxRows) ==
    {SheetWith(<<PriorHeader(category, layout)>> \o rs[1] \o <<rs[2]>>) :
        rs \in (UNION {[1..k -> UniformRows(category, layout)] :
                         k \in 0..(maxRows - 1)}) \X lastRows}

\* -------------------------------------------------------------------- state
VARIABLES
    analyzeDefined,   \* whether the class provides analyze_category
    sheets,           \* the remote spreadsheet: category -> sheet
    pc,               \* position of the program
    retry_count,      \* run(): retry_count
    delays,           \* run(): the delays slept between attempts, in order
    error,            \* the exception being propagated, or "none"
    outcome,          \* how run() ended: "running", "success", "raised"
    results,          \* fetch_commodity_prices(): results
    fcat,             \* fetch_commodity_prices(): index of the category
    category_data,    \* fetch_commodity_prices(): category_data
    finst,            \* fetch_commodity_prices(): index of the instrument
    fetch_retry,      \* fetch_commodity_prices(): retry_count of the instrument
    data,             \* update_google_sheet(): data
    ucat,             \* update_google_sheet(): index of the category
    existing_data,    \* update_google_sheet(): existing_data
    last_week_prices, \* update_google_sheet(): last_week_prices
    new_headers,      \* update_google_sheet(): new_headers
    new_row,          \* update_google_sheet(): new_row
    all_values,       \* format_worksheet(): all_values
    col,              \* format_worksheet(): i of the auto-resize loop
    sheets0,          \* history: the spreadsheet before the program started
    attempts,         \* history: the passes run() has started
    entered,          \* history: categories whose loop body began, this call
    failedAt,         \* history: category -> step whose failure ended it
    modifiedBy,       \* history: category -> attempts that changed its sheet
    formatted,        \* history: categories whose batch format was applied
    unpaced,          \* history: a store call was made since the last sleep
    rowWrites,        \* history: category -> rows appended by this program
    storeLog,         \* history: the store calls issued for the category
                      \* being synchronised, in order, failed ones included
    clears,           \* history: category -> successful clears of its sheet
    headerWrites,     \* history: category -> header rows inserted
    lookups           \* history: symbol -> lookups of the price source made
                      \* by the pass (counted by FetchInstrumentCounted only)

fetchVars == <<results, fcat, category_data, finst, fetch_retry>>
localVars == <<existing_data, last_week_prices, new_headers, new_row,
               all_values, col>>
runVars == <<retry_count, delays, outcome>>
histVars == <<sheets0, attempts, entered, failedAt, modifiedBy, formatted>>
traceVars == <<unpaced, rowWrites, lookups>>
orderVars == <<storeLog, clears, headerWrites>>
vars == <<analyzeDefined, sheets, pc, error, runVars, fetchVars, data, ucat,
          localVars, histVars, traceVars, orderVars>>

\* The category being synchronized and its list of snapshots
Category == data[ucat][1]
prices == data[ucat][2]
\* The attempt of run() in progress (1 when update_google_sheet is called
\* directly)
Attempt == retry_count + 1

NoFailures == [c \in Categories |-> "none"]

InitCommon ==
    /\ sheets0 = sheets
    /\ attempts = 0
    /\ retry_count = 0
    /\ delays = <<>>
    /\ error = "none"
    /\ outcome = "running"
    /\ results = <<>>
    /\ fcat = 0
    /\ category_data = <<>>
    /\ finst = 0
    /\ fetch_retry = 0
    /\ ucat = 0
    /\ existing_data = <<>>
    /\ last_week_prices = <<>>
    /\ new_headers = <<>>
    /\ new_row = <<>>
    /\ all_values = <<>>
    /\ col = 0
    /\ entered = {}
    /\ failedAt = NoFailures
    /\ modifiedBy = [c \in Categories |-> {}]
    /\ formatted = {}
    /\ unpaced = FALSE
    /\ rowWrites = [c \in Categories |-> 0]
    /\ lookups = [i \in AllSymbols |-> 0]
    /\ storeLog = <<>>
    /\ clears = [c \in Categories |-> 0]
    /\ headerWrites = [c \in Categories |-> 0]

\* run() is about to start; every sheet is absent or holds a header row and
\* one data row.
Init ==
    /\ analyzeDefined \in BOOLEAN
    /\ sheets \in [Categories ->
          UNION {{NoSheet} \cup FilledSheets(c, "wow",
                     RowsWith(c, "wow", RunPriorCells), 1) : c \in Categories}]
    /\ \A c \in Categories :
          sheets[c] \in {NoSheet} \cup FilledSheets(c, "wow",
                            RowsWith(c, "wow", RunPriorCells), 1)
    /\ data = <<>>
    /\ pc = "run"
    /\ InitCommon

\* update_google_sheet(data) is about to start on the snapshot of one
\* category, whose sheet holds at most MaxPriorRows data rows (one under
\* the plain header row); the sheets of the other categories do not exist.
InitSync ==
    /\ analyzeDefined = TRUE
    /\ \E c \in Categories :
         /\ \E prior \in BareSheets(c)
                 \cup FilledSheets(c, "wow", RowsWith(c, "wow", PriorCells),
                                   MaxPriorRows)
                 \cup FilledSheets(c, "plain", RowsWith(c, "plain", PriorCells), 1) :
              sheets = [o \in Categories |-> IF o = c THEN prior ELSE NoSheet]
         /\ data \in {<< <<c, <<s>> >> >> : s \in Snapshots(c)}
    /\ pc = "open"
    /\ InitCommon

\* ------------------------------------------------------------------ run()
\* Lines 327-330: one more turn of the while loop; fetch_commodity_prices
\* starts with results = {}.
RunAttempt ==
    /\ pc = "run"
    /\ retry_count < max_retries
    /\ results' = <<>>
    /\ fcat' = 1
    /\ pc' = "fetch_category"
    /\ attempts' = attempts + 1
    /\ UNCHANGED <<analyzeDefined, sheets, error, runVars, category_data,
                   finst, fetch_retry, data, ucat, localVars, sheets0,
                   entered, failedAt, modifiedBy, formatted>>
    /\ UNCHANGED traceVars
    /\ UNCHANGED orderVars

\* Line 92-93 and 128: the next category of the catalog, or return results
FetchCategory ==
    /\ pc = "fetch_category"
    /\ IF fcat > Len(symbols)
       THEN /\ pc' = "fetched"
            /\ UNCHANGED <<category_data, finst, fetch_retry>>
       ELSE /\ category_data' = << <<"Date", Str(current_date)>> >>
            /\ finst' = 1
            /\ fetch_retry' = 0
            /\ pc' = "fetch_instrument"
    /\ UNCHANGED <<analyzeDefined, sheets, error, runVars, results, fcat,
                   data, ucat, localVars, histVars>>
    /\ UNCHANGED traceVars
    /\ UNCHANGED orderVars

FetchInstrumentStep_NoSentinel ==
    /\ pc = "fetch_instrument"
    /\ LET names == DisplayNames(symbols[fcat][1])
           Resolved(entries) ==
               /\ category_data' = category_data \o entries
               /\ fetch_retry' = 0
               /\ finst' = finst + 1
               /\ pc' = IF finst = Len(names) THEN "analysis" ELSE "fetch_instrument"
       IN  \E result \in {"price", "empty", "exception"}, p \in 1..MaxPrice :
             IF result = "price"
             THEN Resolved(<< <<names[finst], Num(p)>> >>)
             ELSE IF fetch_retry + 1 = fetch_max_retries
             THEN Resolved(<<>>)
             ELSE /\ fetch_retry' = fetch_retry + 1
                  /\ UNCHANGED <<category_data, finst, pc>>
    /\ unpaced' = FALSE
    /\ UNCHANGED <<analyzeDefined, sheets, error, runVars, results, fcat,
                   data, ucat, localVars, histVars, rowWrites>>
    /\ UNCHANGED orderVars

\* Lines 99-122: one turn of the while loop of one instrument: a sleep,
\* then one lookup of the price source, which gives a price, an empty
\* history, or raises.
FetchInstrumentStep ==
    /\ pc = "fetch_instrument"
    /\ LET names == DisplayNames(symbols[fcat][1])
           display_name == names[finst]
           Resolved(value) ==
               /\ category_data' = DictSet(category_data, display_name, value)
               /\ fetch_retry' = 0
               /\ finst' = finst + 1
               /\ pc' = IF finst = Len(names) THEN "analysis" ELSE "fetch_instrument"
       IN  \E result \in {"price", "empty", "exception"}, p \in 1..MaxPrice :
             IF result = "price"
             THEN Resolved(Num(p))
             ELSE IF fetch_retry + 1 = fetch_max_retries
             THEN Resolved(NA)
             ELSE /\ fetch_retry' = fetch_retry + 1
                  /\ UNCHANGED <<category_data, finst, pc>>
    /\ unpaced' = FALSE
    /\ UNCHANGED <<analyzeDefined, sheets, error, runVars, results, fcat,
                   data, ucat, localVars, histVars, rowWrites>>
    /\ UNCHANGED orderVars

\* The symbol whose lookup FetchInstrumentStep makes
CurrentSymbol == InstrumentsOf(symbols[fcat][1])[finst][1]

FetchInstrument ==
    /\ FetchInstrumentStep
    /\ lookups' = lookups

\* The same step, with the lookup counted
FetchInstrumentCounted ==
    /\ FetchInstrumentStep
    /\ lookups' = [lookups EXCEPT ![CurrentSymbol] = @ + 1]

\* Lines 125-126: the commentary and results[category] = [category_data].
\* The class of commodity_price_tracker.py defines no analyze_category:
\* there the call raises AttributeError.
FetchAnalysis ==
    /\ pc = "analysis"
    /\ IF analyzeDefined
       THEN /\ results' = DictSet(results, symbols[fcat][1],
                   << DictSet(category_data, "Market Analysis",
                        Str(analyze_category(symbols[fcat][1], category_data))) >>)
            /\ fcat' = fcat + 1
            /\ pc' = "fetch_category"
            /\ error' = error
       ELSE /\ error' = "AttributeError"
            /\ pc' = "except"
            /\ UNCHANGED <<results, fcat>>
    /\ category_data' = <<>>
    /\ finst' = 0
    /\ UNCHANGED <<analyzeDefined, sheets, runVars, fetch_retry, data, ucat,
                   localVars, histVars>>
    /\ UNCHANGED traceVars
    /\ UNCHANGED orderVars

\* Lines 332-335: if not prices: raise ValueError; else update_google_sheet
RunCheckPrices ==
    /\ pc = "fetched"
    /\ IF results = <<>>
       THEN /\ error' = "ValueError"
            /\ pc' = "except"
            /\ data' = data
       ELSE /\ data' = results
            /\ pc' = "open"
            /\ error' = error
    /\ results' = <<>>
    /\ fcat' = 0
    /\ UNCHANGED <<analyzeDefined, sheets, runVars, category_data, finst,
                   fetch_retry, ucat, localVars, histVars>>
    /\ UNCHANGED traceVars
    /\ UNCHANGED orderVars

RunSuccess_FailOnCategoryError ==
    /\ pc = "returned"
    /\ IF failedAt = NoFailures
       THEN /\ outcome' = "success"
            /\ pc' = "done"
            /\ error' = error
       ELSE /\ error' = "CategoryError"
            /\ pc' = "except"
            /\ outcome' = outcome
    /\ UNCHANGED <<analyzeDefined, sheets, retry_count, delays,
                   fetchVars, data, ucat, localVars, histVars>>
    /\ UNCHANGED traceVars
    /\ UNCHANGED orderVars

\* Lines 336-337: the pass succeeded; break
RunSuccess ==
    /\ pc = "returned"
    /\ outcome' = "success"
    /\ pc' = "done"
    /\ UNCHANGED <<analyzeDefined, sheets, error, retry_count, delays,
                   fetchVars, data, ucat, localVars, histVars>>
    /\ UNCHANGED traceVars
    /\ UNCHANGED orderVars

RetryDelay_Fixed(count) == 5 + 0 * count

\* The delay slept after the retry_count-th failed attempt (line 343)
RetryDelay(count) == 5 * count

RunExcept_NoDelay ==
    /\ pc = "except"
    /\ retry_count' = retry_count + 1
    /\ IF retry_count + 1 < max_retries
       THEN /\ pc' = "run"
            /\ error' = "none"
            /\ UNCHANGED <<delays, outcome>>
       ELSE /\ outcome' = "raised"
            /\ pc' = "done"
            /\ UNCHANGED <<delays, error>>
    /\ UNCHANGED <<analyzeDefined, sheets, fetchVars, data, ucat, localVars,
                   histVars>>
    /\ unpaced' = IF retry_count + 1 < max_retries THEN FALSE ELSE unpaced
    /\ UNCHANGED <<rowWrites, lookups>>
    /\ UNCHANGED orderVars

\* Lines 339-346: the pass raised
RunExcept ==
    /\ pc = "except"
    /\ retry_count' = retry_count + 1
    /\ IF retry_count + 1 < max_retries
       THEN /\ delays' = Append(delays, RetryDelay(retry_count + 1))
            /\ pc' = "run"
            /\ error' = "none"
            /\ outcome' = outcome
       ELSE /\ outcome' = "raised"
            /\ pc' = "done"
            /\ UNCHANGED <<delays, error>>
    /\ UNCHANGED <<analyzeDefined, sheets, fetchVars, data, ucat, localVars,
                   histVars>>
    /\ unpaced' = IF retry_count + 1 < max_retries THEN FALSE ELSE unpaced
    /\ UNCHANGED <<rowWrites, lookups>>
    /\ UNCHANGED orderVars

\* ------------------------------------------------- update_google_sheet()
ResetLocals ==
    /\ existing_data' = <<>>
    /\ last_week_prices' = <<>>
    /\ new_headers' = <<>>
    /\ new_row' = <<>>
    /\ all_values' = <<>>
    /\ col' = 0

\* The loop goes on with the next category (or ends, see SyncCategory)
NextCategory ==
    /\ ucat' = ucat + 1
    /\ pc' = "category"
    /\ ResetLocals

CategoryError_Break(step) ==
    /\ failedAt' = [failedAt EXCEPT ![Category] = step]
    /\ ucat' = Len(data) + 1
    /\ pc' = "category"
    /\ ResetLocals

\* Lines 311-314: except Exception as category_error: log, sleep, continue
CategoryError(step) ==
    /\ failedAt' = [failedAt EXCEPT ![Category] = step]
    /\ NextCategory

OpenSpreadsheet_Continue ==
    /\ pc = "open"
    /\ \E ok \in BOOLEAN :
         /\ ucat' = 1
         /\ pc' = "category"
         /\ error' = IF ok THEN error ELSE "APIError"
    /\ entered' = {}
    /\ failedAt' = NoFailures
    /\ UNCHANGED <<analyzeDefined, sheets, runVars, fetchVars, data,
                   localVars, sheets0, attempts, modifiedBy, formatted>>
    /\ unpaced' = TRUE
    /\ UNCHANGED <<rowWrites, lookups>>
    /\ storeLog' = <<>>
    /\ UNCHANGED <<clears, headerWrites>>

\* Lines 239-240 and 318-320: open the spreadsheet; a failure is logged and
\* re-raised to the caller.
OpenSpreadsheet ==
    /\ pc = "open"
    /\ \E ok \in BOOLEAN :
         IF ok
         THEN /\ ucat' = 1
              /\ pc' = "category"
              /\ error' = error
         ELSE /\ error' = "APIError"
              /\ pc' = "except"
              /\ ucat' = ucat
    /\ entered' = {}
    /\ failedAt' = NoFailures
    /\ UNCHANGED <<analyzeDefined, sheets, runVars, fetchVars, data,
                   localVars, sheets0, attempts, modifiedBy, formatted>>
    /\ unpaced' = TRUE
    /\ UNCHANGED <<rowWrites, lookups>>
    /\ storeLog' = <<>>
    /\ UNCHANGED <<clears, headerWrites>>

\* Lines 242-244 and 316: the next item of data, or the end of the loop and
\* the return
SyncCategory ==
    /\ pc = "category"
    /\ IF ucat > Len(data)
       THEN /\ pc' = "returned"
            /\ entered' = entered
       ELSE /\ pc' = "worksheet"
            /\ entered' = entered \cup {Category}
    /\ UNCHANGED <<analyzeDefined, sheets, error, runVars, fetchVars, data,
                   ucat, localVars, sheets0, attempts, failedAt, modifiedBy,
                   formatted>>
    /\ unpaced' = IF ucat > Len(data) THEN unpaced ELSE FALSE
    /\ UNCHANGED <<rowWrites, lookups>>
    /\ storeLog' = IF ucat > Len(data) THEN storeLog ELSE <<>>
    /\ UNCHANGED <<clears, headerWrites>>

\* Lines 246-248: sheet.worksheet(category)
GetWorksheet ==
    /\ pc = "worksheet"
    /\ \E ok \in BOOLEAN :
         IF ~ok
         THEN CategoryError("worksheet")
         ELSE /\ pc' = IF sheets[Category].exists THEN "read" ELSE "add_worksheet"
              /\ UNCHANGED <<ucat, localVars, failedAt>>
    /\ UNCHANGED <<analyzeDefined, sheets, error, runVars, fetchVars, data,
                   sheets0, attempts, entered, modifiedBy, formatted>>
    /\ unpaced' = (pc' # "category")
    /\ UNCHANGED <<rowWrites, lookups>>
    /\ storeLog' = Append(storeLog, "worksheet")
    /\ UNCHANGED <<clears, headerWrites>>

\* Lines 249-251: sheet.add_worksheet(category, 1000, 20)
AddWorksheet ==
    /\ pc = "add_worksheet"
    /\ \E ok \in BOOLEAN :
         IF ~ok
         THEN /\ CategoryError("add_worksheet")
              /\ sheets' = sheets
         ELSE /\ sheets' = [sheets EXCEPT ![Category] = SheetWith(<<>>)]
              /\ pc' = "read"
              /\ UNCHANGED <<ucat, localVars, failedAt>>
    /\ UNCHANGED <<analyzeDefined, error, runVars, fetchVars, data,
                   sheets0, attempts, entered, modifiedBy, formatted>>
    /\ unpaced' = FALSE
    /\ UNCHANGED <<rowWrites, lookups>>
    /\ storeLog' = Append(storeLog, "add_worksheet")
    /\ UNCHANGED <<clears, headerWrites>>

ReadExisting_ClearFirst ==
    /\ pc = "read"
    /\ sheets' = [sheets EXCEPT ![Category].rows = <<>>]
    /\ existing_data' = <<>>
    /\ pc' = "last_week"
    /\ UNCHANGED <<analyzeDefined, error, runVars, fetchVars, data, ucat,
                   last_week_prices, new_headers, new_row, all_values, col,
                   histVars, traceVars>>
    /\ storeLog' = storeLog \o <<"clear", "read">>
    /\ UNCHANGED <<clears, headerWrites>>

\* Lines 254-255: existing_data = worksheet.get_all_values()
ReadExisting ==
    /\ pc = "read"
    /\ \E ok \in BOOLEAN :
         IF ~ok
         THEN CategoryError("read")
         ELSE /\ existing_data' = get_all_values(sheets[Category].rows)
              /\ pc' = "last_week"
              /\ UNCHANGED <<ucat, last_week_prices, new_headers, new_row,
                             all_values, col, failedAt>>
    /\ UNCHANGED <<analyzeDefined, sheets, error, runVars, fetchVars, data,
                   sheets0, attempts, entered, modifiedBy, formatted>>
    /\ unpaced' = FALSE
    /\ UNCHANGED <<rowWrites, lookups>>
    /\ storeLog' = Append(storeLog, "read")
    /\ UNCHANGED <<clears, headerWrites>>

\* Lines 257-265: last_week_prices; a ValueError of float() ends the category
LastWeekPrices ==
    /\ pc = "last_week"
    /\ LET parsed == ParseLastWeek(existing_data) IN
         IF parsed.error # "none"
         THEN CategoryError("last_week")
         ELSE /\ last_week_prices' = parsed.prices
              /\ pc' = "build"
              /\ UNCHANGED <<ucat, existing_data, new_headers, new_row,
                             all_values, col, failedAt>>
    /\ UNCHANGED <<analyzeDefined, sheets, error, runVars, fetchVars, data,
                   sheets0, attempts, entered, modifiedBy, formatted>>
    /\ unpaced' = IF failedAt' # failedAt THEN FALSE ELSE unpaced
    /\ UNCHANGED <<rowWrites, lookups>>
    /\ UNCHANGED orderVars

BuildOutput_ClearFirst ==
    /\ pc = "build"
    /\ sheets' = [sheets EXCEPT ![Category].rows = <<>>]
    /\ IF prices # <<>> /\ prices[1] # <<>>
       THEN LET built == BuildRow(prices[1], last_week_prices) IN
            IF built.error # "none"
            THEN CategoryError("build")
            ELSE /\ new_headers' = built.new_headers
                 /\ new_row' = built.new_row
                 /\ pc' = "clear"
                 /\ UNCHANGED <<ucat, existing_data, last_week_prices,
                                all_values, col, failedAt>>
       ELSE /\ NextCategory
            /\ failedAt' = failedAt
    /\ UNCHANGED <<analyzeDefined, error, runVars, fetchVars, data,
                   sheets0, attempts, entered, modifiedBy, formatted>>
    /\ unpaced' = IF failedAt' # failedAt THEN FALSE ELSE unpaced
    /\ UNCHANGED <<rowWrites, lookups>>
    /\ UNCHANGED orderVars

\* Lines 267-291 and 308-309: new_headers and new_row; a ZeroDivisionError
\* ends the category
BuildOutput ==
    /\ pc = "build"
    /\ IF prices # <<>> /\ prices[1] # <<>>
       THEN LET built == BuildRow(prices[1], last_week_prices) IN
            IF built.error # "none"
            THEN CategoryError("build")
            ELSE /\ new_headers' = built.new_headers
                 /\ new_row' = built.new_row
                 /\ pc' = "clear"
                 /\ UNCHANGED <<ucat, existing_data, last_week_prices,
                                all_values, col, failedAt>>
       ELSE /\ NextCategory
            /\ failedAt' = failedAt
    /\ UNCHANGED <<analyzeDefined, sheets, error, runVars, fetchVars, data,
                   sheets0, attempts, entered, modifiedBy, formatted>>
    /\ unpaced' = IF failedAt' # failedAt THEN FALSE ELSE unpaced
    /\ UNCHANGED <<rowWrites, lookups>>
    /\ UNCHANGED orderVars

\* A store call that changes the rows of the category's sheet
Modify(step, rows, next) ==
    /\ \E ok \in BOOLEAN :
         IF ~ok
         THEN /\ CategoryError(step)
              /\ UNCHANGED <<sheets, modifiedBy>>
         ELSE /\ sheets' = [sheets EXCEPT ![Category].rows = rows]
              /\ modifiedBy' = [modifiedBy EXCEPT ![Category] = @ \cup {Attempt}]
              /\ pc' = next
              /\ UNCHANGED <<ucat, localVars, failedAt>>
    /\ UNCHANGED <<analyzeDefined, error, runVars, fetchVars, data,
                   sheets0, attempts, entered, formatted>>

ClearedRows_Kept(rows) == rows

\* gspread's clear, insert_row(values, 1) and append_row(values)
ClearedRows(rows) == <<>>
InsertedRows(rows, values) == <<values>> \o rows
AppendedRows(rows, values) == Append(rows, values)
HeaderCells(headers) == [i \in 1..Len(headers) |-> Str(headers[i])]

\* Line 294-295: worksheet.clear()
ClearSheet_ThenRow ==
    /\ pc = "clear"
    /\ Modify("clear", ClearedRows(sheets[Category].rows), "append_row")
    /\ unpaced' = FALSE
    /\ UNCHANGED <<rowWrites, lookups>>
    /\ storeLog' = Append(storeLog, "clear")
    /\ clears' = [clears EXCEPT ![Category] =
                    IF pc' = "append_row" THEN @ + 1 ELSE @]
    /\ headerWrites' = headerWrites

ClearSheet ==
    /\ pc = "clear"
    /\ Modify("clear", ClearedRows(sheets[Category].rows), "insert_row")
    /\ unpaced' = FALSE
    /\ UNCHANGED <<rowWrites, lookups>>
    /\ storeLog' = Append(storeLog, "clear")
    /\ clears' = [clears EXCEPT ![Category] =
                    IF pc' = "insert_row" THEN @ + 1 ELSE @]
    /\ headerWrites' = headerWrites

InsertHeader_Restore ==
    /\ pc = "insert_row"
    /\ \E ok \in BOOLEAN :
         IF ~ok
         THEN /\ CategoryError("insert_row")
              /\ sheets' = [sheets EXCEPT ![Category].rows = sheets0[Category].rows]
              /\ modifiedBy' = modifiedBy
         ELSE /\ sheets' = [sheets EXCEPT ![Category].rows =
                     InsertedRows(sheets[Category].rows, HeaderCells(new_headers))]
              /\ modifiedBy' = [modifiedBy EXCEPT ![Category] = @ \cup {Attempt}]
              /\ pc' = "append_row"
              /\ UNCHANGED <<ucat, localVars, failedAt>>
    /\ UNCHANGED <<analyzeDefined, error, runVars, fetchVars, data,
                   sheets0, attempts, entered, formatted>>
    /\ unpaced' = FALSE
    /\ UNCHANGED <<rowWrites, lookups>>
    /\ storeLog' = Append(storeLog, "insert_row")
    /\ headerWrites' = [headerWrites EXCEPT ![Category] =
                          IF pc' = "append_row" THEN @ + 1 ELSE @]
    /\ clears' = clears

\* Lines 297-298: worksheet.insert_row(new_headers, 1)
InsertHeader ==
    /\ pc = "insert_row"
    /\ Modify("insert_row",
              InsertedRows(sheets[Category].rows, HeaderCells(new_headers)),
              "append_row")
    /\ unpaced' = FALSE
    /\ UNCHANGED <<rowWrites, lookups>>
    /\ storeLog' = Append(storeLog, "insert_row")
    /\ headerWrites' = [headerWrites EXCEPT ![Category] =
                          IF pc' = "append_row" THEN @ + 1 ELSE @]
    /\ clears' = clears

\* Lines 300-301: worksheet.append_row(new_row)
AppendRow ==
    /\ pc = "append_row"
    /\ Modify("append_row", AppendedRows(sheets[Category].rows, new_row),
              "format_read")
    /\ unpaced' = FALSE
    /\ rowWrites' = [rowWrites EXCEPT ![Category] =
                          IF sheets' # sheets THEN @ + 1 ELSE @]
    /\ lookups' = lookups
    /\ storeLog' = Append(storeLog, "append_row")
    /\ UNCHANGED <<clears, headerWrites>>

\* ------------------------------------------------------ format_worksheet()
\* Lines 134-138: all_values = worksheet.get_all_values(); an empty sheet
\* ends the formatting.  Any exception is logged and re-raised (233-235).
FormatRead ==
    /\ pc = "format_read"
    /\ \E ok \in BOOLEAN :
         IF ~ok
         THEN CategoryError("format_read")
         ELSE IF Len(sheets[Category].rows) < 1
         THEN /\ NextCategory
              /\ failedAt' = failedAt
         ELSE /\ all_values' = get_all_values(sheets[Category].rows)
              /\ pc' = "batch_update"
              /\ UNCHANGED <<ucat, existing_data, last_week_prices,
                             new_headers, new_row, col, failedAt>>
    /\ UNCHANGED <<analyzeDefined, sheets, error, runVars, fetchVars, data,
                   sheets0, attempts, entered, modifiedBy, formatted>>
    /\ unpaced' = (pc' = "batch_update")
    /\ UNCHANGED <<rowWrites, lookups>>
    /\ storeLog' = Append(storeLog, "format_read")
    /\ UNCHANGED <<clears, headerWrites>>

FormatBatch_Rollback ==
    /\ pc = "batch_update"
    /\ \E ok \in BOOLEAN :
         IF ~ok
         THEN /\ CategoryError("batch_update")
              /\ formatted' = formatted
              /\ sheets' = [sheets EXCEPT ![Category].rows = <<>>]
         ELSE /\ formatted' = formatted \cup {Category}
              /\ col' = 1
              /\ pc' = "auto_resize"
              /\ sheets' = sheets
              /\ UNCHANGED <<ucat, existing_data, last_week_prices,
                             new_headers, new_row, all_values, failedAt>>
    /\ UNCHANGED <<analyzeDefined, error, runVars, fetchVars, data,
                   sheets0, attempts, entered, modifiedBy>>
    /\ unpaced' = (pc' = "auto_resize")
    /\ UNCHANGED <<rowWrites, lookups>>
    /\ storeLog' = Append(storeLog, "batch_update")
    /\ UNCHANGED <<clears, headerWrites>>

\* Lines 197-221: the batch request and worksheet.spreadsheet.batch_update
FormatBatch ==
    /\ pc = "batch_update"
    /\ \E ok \in BOOLEAN :
         IF ~ok
         THEN /\ CategoryError("batch_update")
              /\ formatted' = formatted
         ELSE /\ formatted' = formatted \cup {Category}
              /\ col' = 1
              /\ pc' = "auto_resize"
              /\ UNCHANGED <<ucat, existing_data, last_week_prices,
                             new_headers, new_row, all_values, failedAt>>
    /\ UNCHANGED <<analyzeDefined, sheets, error, runVars, fetchVars, data,
                   sheets0, attempts, entered, modifiedBy>>
    /\ unpaced' = (pc' = "auto_resize")
    /\ UNCHANGED <<rowWrites, lookups>>
    /\ storeLog' = Append(storeLog, "batch_update")
    /\ UNCHANGED <<clears, headerWrites>>

\* Lines 224-231 and 305-307: one turn of the auto-resize loop, whose
\* failure is logged only; after the last turn the category is done.
FormatResize ==
    /\ pc = "auto_resize"
    /\ \E ok \in BOOLEAN :
         IF col < Len(new_headers)
         THEN /\ col' = col + 1
              /\ unpaced' = ~ok
              /\ UNCHANGED <<ucat, pc, existing_data, last_week_prices,
                             new_headers, new_row, all_values>>
         ELSE /\ NextCategory
              /\ unpaced' = FALSE
    /\ UNCHANGED <<analyzeDefined, sheets, error, runVars, fetchVars, data,
                   histVars, rowWrites, lookups>>
    /\ storeLog' = Append(storeLog, "auto_resize")
    /\ UNCHANGED <<clears, headerWrites>>

\* ------------------------------------------------------------ specifications
SyncNext ==
    \/ OpenSpreadsheet
    \/ SyncCategory
    \/ GetWorksheet
    \/ AddWorksheet
    \/ ReadExisting
    \/ LastWeekPrices
    \/ BuildOutput
    \/ ClearSheet
    \/ InsertHeader
    \/ AppendRow
    \/ FormatRead
    \/ FormatBatch
    \/ FormatResize

Next ==
    \/ RunAttempt
    \/ FetchCategory
    \/ FetchInstrument
    \/ FetchAnalysis
    \/ RunCheckPrices
    \/ RunSuccess
    \/ RunExcept
    \/ SyncNext

\* run() from its start
Spec == Init /\ [][Next]_vars
\* update_google_sheet(data) called on its own
SpecSync == InitSync /\ [][SyncNext]_vars

\* run() is about to start and no sheet exists
InitFetch ==
    /\ analyzeDefined \in BOOLEAN
    /\ sheets = [c \in Categories |-> NoSheet]
    /\ data = <<>>
    /\ pc = "run"
    /\ InitCommon

FetchNext ==
    \/ RunAttempt
    \/ FetchCategory
    \/ FetchInstrumentCounted
    \/ FetchAnalysis

\* The fetch pass of run()'s first attempt, its lookups counted
SpecFetch == InitFetch /\ [][FetchNext]_vars

\* ============================================================== properties
\* The items of data: the category and its snapshot
DataIndex == 1..Len(data)
CatAt(i) == data[i][1]
SnapAt(i) == data[i][2][1]
\* The loop body of item i has ended in this call
Finished(i) == i \in DataIndex /\ ucat > i
\* The numeric fields of a snapshot
FieldsAt(i) ==
    {SnapAt(i)[k][1] : k \in 1..Len(SnapAt(i))} \ {"Date", "Market Analysis"}

\* Columns of a stored sheet, by header
HasColumn(rows, h) == \E j \in 1..Len(rows[1]) : rows[1][j] = Str(h)
ColumnOf(rows, h) == CHOOSE j \in 1..Len(rows[1]) : rows[1][j] = Str(h)

\* The sheet of category c before the program started
PriorRows(c) == sheets0[c].rows
HasPriorRow(c) == Len(PriorRows(c)) > 1
\* The text the last data row showed under header f
HasPriorCell(c, f) == HasPriorRow(c) /\ HasColumn(PriorRows(c), f)
PriorText(c, f) ==
    RenderCell(PriorRows(c)[Len(PriorRows(c))][ColumnOf(PriorRows(c), f)])
PriorIsNumber(c, f) == HasPriorCell(c, f) /\ FloatOk(PriorText(c, f))
PriorNumber(c, f) == FloatVal(PriorText(c, f))
PriorIsMalformed(c, f) ==
    HasPriorCell(c, f) /\ ~FloatOk(PriorText(c, f)) /\ PriorText(c, f) # "N/A"
\* Field f has no prior cell, the sentinel, or a numeral other than zero
PriorIsBenign(c, f) ==
    \/ ~HasPriorCell(c, f)
    \/ PriorText(c, f) = "N/A"
    \/ PriorIsNumber(c, f) /\ PriorNumber(c, f) # 0

\* This program cleared the sheet of c and then wrote a header and a row
RowWritten(c) == modifiedBy[c] # {} /\ Len(sheets[c].rows) = 2
WrittenCell(c, h) == sheets[c].rows[2][ColumnOf(sheets[c].rows, h)]
HasWrittenCell(c, h) == RowWritten(c) /\ HasColumn(sheets[c].rows, h)
\* No call to the store failed before the row of c was written
StoreSteps == {"worksheet", "add_worksheet", "read", "clear", "insert_row",
               "append_row"}

\* C1: whenever the row of a category has been written, a field whose prior
\* value P (last data row only) is a number other than 0 and whose current
\* value C is a number has under "F WoW" the quotient (C - P) / P, as a
\* fraction (not a percentage).
C1_WoWIsFractionOfLastRow ==
    \A i \in DataIndex : \A f \in FieldsAt(i) :
        LET c == CatAt(i)
            current == DictGet(SnapAt(i), f)
        IN  (/\ RowWritten(c)
             /\ PriorIsNumber(c, f)
             /\ PriorNumber(c, f) # 0
             /\ IsNum(current))
            => /\ HasWrittenCell(c, f \o " WoW")
               /\ IsRatio(WrittenCell(c, f \o " WoW"))
               /\ WrittenCell(c, f \o " WoW").rd # 0
               /\ WrittenCell(c, f \o " WoW").rn * PriorNumber(c, f)
                    = (current.num - PriorNumber(c, f))
                        * WrittenCell(c, f \o " WoW").rd

\* A row was written for Gold with C # P, from a sheet whose older data row
\* held another value than the last one.
C1_Witness ==
    /\ data # <<>>
    /\ CatAt(1) = "Metals"
    /\ RowWritten("Metals")
    /\ Len(PriorRows("Metals")) = 3
    /\ PriorIsNumber("Metals", "Gold")
    /\ PriorNumber("Metals", "Gold") = 1
    /\ PriorRows("Metals")[2] # PriorRows("Metals")[3]
    /\ DictGet(SnapAt(1), "Gold") = Num(2)
    /\ WrittenCell("Metals", "Gold WoW") = Ratio(1, 1)

\* The loop body of item i ended and no store call of it failed before the
\* row could be written
EndedWithoutStoreFailure(i) == Finished(i) /\ failedAt[CatAt(i)] \notin StoreSteps
\* Every field of item i other than f has a benign prior cell
OthersBenign(i, f) == \A g \in FieldsAt(i) \ {f} : PriorIsBenign(CatAt(i), g)

\* C2: when the prior value of a field parses as 0 and its current value
\* is a number, the category's row is still written, with "N/A" under
\* "F WoW" (the division by zero is guarded).
C2_ZeroPriorGivesNA ==
    \A i \in DataIndex : \A f \in FieldsAt(i) :
        LET c == CatAt(i) IN
        (/\ EndedWithoutStoreFailure(i)
         /\ PriorIsNumber(c, f)
         /\ PriorNumber(c, f) = 0
         /\ IsNum(DictGet(SnapAt(i), f))
         /\ OthersBenign(i, f))
        => /\ HasWrittenCell(c, f \o " WoW")
           /\ WrittenCell(c, f \o " WoW") = NA

\* C3: when the prior cell of a field is a text that is neither a numeral
\* nor the sentinel, the category's row is still written, with "N/A" under
\* "F WoW" and with every other field and its WoW cell in place.
C3_MalformedPriorGivesNA ==
    \A i \in DataIndex : \A f \in FieldsAt(i) :
        LET c == CatAt(i) IN
        (/\ EndedWithoutStoreFailure(i)
         /\ PriorIsMalformed(c, f)
         /\ OthersBenign(i, f))
        => /\ HasWrittenCell(c, f \o " WoW")
           /\ WrittenCell(c, f \o " WoW") = NA
           /\ \A g \in FieldsAt(i) :
                /\ HasWrittenCell(c, g)
                /\ HasWrittenCell(c, g \o " WoW")

\* C4: when the read of a category's history fails, its header and row are
\* still written, with "N/A" in every WoW cell.
C4_ReadFailureIsNoPriorRow ==
    \A i \in DataIndex :
        LET c == CatAt(i) IN
        (Finished(i) /\ failedAt[c] = "read")
        => /\ RowWritten(c)
           /\ \A f \in FieldsAt(i) :
                /\ HasWrittenCell(c, f \o " WoW")
                /\ WrittenCell(c, f \o " WoW") = NA

\* C5: when the current value of a field is the sentinel, the row is written
\* with "N/A" under F and under "F WoW", whatever the prior cell of F holds.
C5_SentinelCurrentGivesNA ==
    \A i \in DataIndex : \A f \in FieldsAt(i) :
        LET c == CatAt(i) IN
        (/\ EndedWithoutStoreFailure(i)
         /\ DictGet(SnapAt(i), f) = NA
         /\ OthersBenign(i, f))
        => /\ HasWrittenCell(c, f)
           /\ WrittenCell(c, f) = NA
           /\ HasWrittenCell(c, f \o " WoW")
           /\ WrittenCell(c, f \o " WoW") = NA

\* C6: when the sheet of a category held no data row (no sheet, an empty
\* sheet or a header row only), the delta computation does not fail and,
\* unless a store call failed, the row is written with "N/A" in the WoW cell
\* of every field.
C6_NoPriorRowGivesNA ==
    \A i \in DataIndex :
        LET c == CatAt(i) IN
        (Finished(i) /\ ~HasPriorRow(c))
        => /\ failedAt[c] \notin {"last_week", "build"}
           /\ failedAt[c] \notin StoreSteps
              => /\ RowWritten(c)
                 /\ \A f \in FieldsAt(i) :
                      /\ HasWrittenCell(c, f \o " WoW")
                      /\ WrittenCell(c, f \o " WoW") = NA

\* The sheet held a header row only, and the row was written with a price.
C6_Witness ==
    /\ Finished(1)
    /\ CatAt(1) = "Metals"
    /\ Len(PriorRows("Metals")) = 1
    /\ failedAt["Metals"] = "none"
    /\ RowWritten("Metals")
    /\ DictGet(SnapAt(1), "Gold") = Num(1)
    /\ WrittenCell("Metals", "Gold WoW") = NA
    /\ WrittenCell("Metals", "Silver WoW") = NA

\* C7: after a synchronization in which no step failed, the sheet holds
\* exactly a header row and one data row, and the data row holds the current
\* date and, under each field, the snapshot's value of this call.
C7_FullReplace ==
    \A i \in DataIndex :
        LET c == CatAt(i)
            rows == sheets[c].rows
        IN  (Finished(i) /\ failedAt[c] = "none")
            => /\ sheets[c].exists
               /\ Len(rows) = 2
               /\ Len(rows[1]) = Len(rows[2])
               /\ \A j \in 1..Len(rows[1]) : IsStr(rows[1][j])
               /\ rows[1][1] = Str("Date")
               /\ rows[2][1] = DictGet(SnapAt(i), "Date")
               /\ \A f \in FieldsAt(i) \cup {"Market Analysis"} :
                    /\ HasColumn(rows, f)
                    /\ rows[2][ColumnOf(rows, f)] = DictGet(SnapAt(i), f)

\* A sheet that held two older data rows was replaced.
C7_Witness ==
    /\ Finished(1)
    /\ CatAt(1) = "Metals"
    /\ failedAt["Metals"] = "none"
    /\ Len(PriorRows("Metals")) = 3
    /\ Len(sheets["Metals"].rows) = 2
    /\ sheets["Metals"].rows[2][2] = Num(2)

\* C8: a failure at any step of a category's synchronization is not raised
\* out of the loop, the loop goes on with the next item of data, and when
\* update_google_sheet returns every category of data has been entered.
C8_PerCategoryIsolation ==
    /\ \A i \in DataIndex :
         (Finished(i) /\ failedAt[CatAt(i)] # "none")
         => /\ pc # "except"
            /\ i < Len(data)
               => \/ CatAt(i + 1) \in entered
                  \/ pc = "category" /\ ucat = i + 1
    /\ pc = "returned" => \A i \in DataIndex : CatAt(i) \in entered

\* The clear of the first category failed and the second category's row was
\* written in the same pass.
C8_Witness ==
    /\ pc = "returned"
    /\ Len(data) = 2
    /\ failedAt[CatAt(1)] = "clear"
    /\ CatAt(2) \in entered
    /\ failedAt[CatAt(2)] = "none"
    /\ RowWritten(CatAt(2))

\* C9, in every state: at most 3 passes are started, each later delay is
\* longer than the one before, a success ends run() after the pass that
\* succeeded, and run() raises only after 3 failed passes, with an error.
C9_RetryState ==
    /\ attempts <= 3
    /\ Len(delays) <= 2
    /\ \A k \in 1..(Len(delays) - 1) : delays[k] < delays[k + 1]
    /\ outcome = "success" => pc = "done" /\ attempts = retry_count + 1
    /\ outcome = "raised"
       => pc = "done" /\ attempts = 3 /\ retry_count = 3 /\ error # "none"
    /\ pc = "done" => outcome # "running"

\* C9, in every step: a pass that returned ends run() at once; a pass that
\* raised is followed by a delay and one more pass while fewer than 3 have
\* failed, and else its error is raised to the caller.
C9_RetryStep ==
    /\ pc = "returned"
       => outcome' = "success" /\ pc' = "done" /\ attempts' = attempts
    /\ pc = "except" /\ retry_count + 1 < 3
       => pc' = "run" /\ Len(delays') = Len(delays) + 1 /\ outcome' = "running"
    /\ pc = "except" /\ retry_count + 1 >= 3
       => outcome' = "raised" /\ error' = error /\ delays' = delays
    /\ pc = "run" => attempts' = attempts + 1

\* C9: run() makes at most 3 attempts with strictly increasing delays, stops
\* at the first success and re-raises the last error after 3 failures.
C9_BoundedRetry == []C9_RetryState /\ [][C9_RetryStep]_vars

\* Three passes failed and run() raised after the delays 5 and 10.
C9_Witness ==
    /\ outcome = "raised"
    /\ attempts = 3
    /\ delays = <<5, 10>>
    /\ error = "APIError"

\* C10: when run() succeeds at its second pass, exactly one delay was slept,
\* no sheet was changed by the first pass, every row written holds the
\* values fetched by the second pass, and a sheet no store call changed
\* holds what it held before.
C10_SecondAttemptOnly ==
    (outcome = "success" /\ attempts = 2)
    => /\ Len(delays) = 1
       /\ \A c \in Categories : modifiedBy[c] \subseteq {2}
       /\ \A i \in DataIndex :
            LET c == CatAt(i)
                rows == sheets[c].rows
            IN  /\ RowWritten(c)
                   => /\ rows[2][1] = DictGet(SnapAt(i), "Date")
                      /\ \A f \in FieldsAt(i) \cup {"Market Analysis"} :
                           /\ HasColumn(rows, f)
                           /\ rows[2][ColumnOf(rows, f)] = DictGet(SnapAt(i), f)
                /\ modifiedBy[c] = {} => rows = sheets0[c].rows

\* The first pass failed opening the spreadsheet; the second wrote both rows.
C10_Witness ==
    /\ outcome = "success"
    /\ attempts = 2
    /\ delays = <<5>>
    /\ \A c \in Categories : RowWritten(c) /\ modifiedBy[c] = {2}

\* ------------------------------------------------------------------ C11
CatalogPrefix(dict) ==
    /\ Len(dict) <= Len(symbols)
    /\ \A i \in 1..Len(dict) : dict[i][1] = symbols[i][1]

FetchPcs == {"fetch_category", "fetch_instrument", "analysis", "fetched"}
BeforeReadPcs == {"worksheet", "add_worksheet", "read"}
AfterReadPcs == {"last_week", "build", "clear", "insert_row", "append_row"}
WritePcs == {"clear", "insert_row", "append_row"}

\* What the category's sheet held before run() started, as read
HistoryBeforeRun(c) == get_all_values(sheets0[c].rows)

C11_OrderState ==
    /\ CatalogPrefix(results)
    /\ CatalogPrefix(data)
    /\ pc \in FetchPcs => Len(results) = fcat - 1
    /\ pc \in BeforeReadPcs \cup AfterReadPcs
       => /\ ucat \in DataIndex
          /\ Len(data) = Len(symbols)
          /\ entered = {CatAt(i) : i \in 1..ucat}
    /\ pc \in BeforeReadPcs
       => /\ modifiedBy[Category] = {}
          /\ sheets[Category].rows = sheets0[Category].rows
    /\ pc \in AfterReadPcs => existing_data = HistoryBeforeRun(Category)
    /\ pc \in WritePcs
       => /\ last_week_prices = ParseLastWeek(HistoryBeforeRun(Category)).prices
          /\ new_row = BuildRow(prices[1], last_week_prices).new_row

C11_OrderStep ==
    /\ \A c \in Categories :
         (sheets'[c].rows # sheets[c].rows \/ modifiedBy'[c] # modifiedBy[c])
         => /\ pc \in WritePcs
            /\ c = Category
            /\ existing_data = HistoryBeforeRun(c)
    /\ fcat' # fcat => fcat' \in {0, 1, fcat + 1}
    /\ ucat' # ucat => ucat' \in {1, ucat + 1}

\* C11: the categories are fetched and then synchronised in the order of
\* the catalog; a category's snapshot is fetched before its sheet is read,
\* the delta row is computed before the sheet is cleared or written, and
\* the history used for the deltas is what the sheet held before run()
\* changed it, in every pass of the run.
C11_CatalogOrderReadBeforeWrite == []C11_OrderState /\ [][C11_OrderStep]_vars

\* The second pass of a run rewrites the last category over a prior row,
\* having read that row before.
C11_Witness ==
    /\ attempts = 2
    /\ pc = "append_row"
    /\ ucat = Len(symbols)
    /\ HasPriorRow(Category)
    /\ Len(existing_data) = 2
    /\ modifiedBy[Category] = {2}
    /\ modifiedBy[CatAt(1)] = {2}

\* ------------------------------------------------------------------ C12
\* The positions whose step makes a call of the remote store
StoreCallPcs == {"open", "worksheet", "add_worksheet", "read", "clear",
                 "insert_row", "append_row", "format_read", "batch_update",
                 "auto_resize"}

\* C12: a call of the remote store (opening, sheet lookup or creation,
\* read, clear, header write, row write, formatting read, batch format
\* update, column auto-resize) is only made when a sleep has been taken
\* since the store call before it.
C12_StoreCallsArePaced == pc \in StoreCallPcs => ~unpaced

\* ------------------------------------------------------------------ C13
\* The instruments the pass has resolved so far, each with its source
\* symbol and the value stored for it
ResolvedEntries ==
    UNION {
      LET c == symbols[i][1]
          inst == InstrumentsOf(c)
      IN  {<<inst[j][1],
             IF DictHas(results, c)
             THEN DictGet(DictGet(results, c)[1], inst[j][2])
             ELSE DictGet(category_data, inst[j][2])>> :
           j \in {k \in 1..Len(inst) :
                    \/ DictHas(results, c)
                    \/ /\ pc \in {"fetch_instrument", "analysis"}
                       /\ fcat = i
                       /\ DictHas(category_data, inst[k][2])}}
      : i \in 1..Len(symbols)}

KeysOf(d) == [i \in 1..Len(d) |-> d[i][1]]

\* One entry per instrument of the category after the date, each a price
\* or "N/A"
HasEveryInstrument(c, entries) ==
    /\ Len(entries) >= 1 + Len(DisplayNames(c))
    /\ SubSeq(KeysOf(entries), 1, 1 + Len(DisplayNames(c)))
         = <<"Date">> \o DisplayNames(c)
    /\ \A j \in 2..(1 + Len(DisplayNames(c))) :
         IsNum(entries[j][2]) \/ entries[j][2] = NA

C14_SnapshotState ==
    /\ pc = "analysis" => /\ HasEveryInstrument(symbols[fcat][1], category_data)
                          /\ Len(category_data) = 1 + Len(DisplayNames(symbols[fcat][1]))
    /\ \A i \in 1..Len(results) :
         HasEveryInstrument(results[i][1], results[i][2][1])
    /\ pc = "fetched" => Len(results) = Len(symbols)
    /\ error \in {"none", "AttributeError"}

C14_SnapshotStep ==
    pc = "fetch_instrument"
    => /\ error' = error
       /\ fcat' = fcat
       /\ \/ pc' = "fetch_instrument" /\ finst' = finst /\ fetch_retry' = fetch_retry + 1
          \/ pc' = "fetch_instrument" /\ finst' = finst + 1
          \/ pc' = "analysis" /\ finst = Len(DisplayNames(symbols[fcat][1]))

\* C14: whatever the lookups of a category's instruments give (price, empty
\* history, exception), no lookup ends the category: the category's entries
\* hold one value per instrument, the price or "N/A", the pass goes on with
\* the next instrument, and every stored snapshot holds all its instruments.
C14_InstrumentFailureIsContained == []C14_SnapshotState /\ [][C14_SnapshotStep]_vars

\* The pass ended with a snapshot of each category although the first
\* instrument of Metals and the instrument of Crypto gave no price.
C14_Witness ==
    /\ pc = "fetched"
    /\ Len(results) = Len(symbols)
    /\ DictGet(DictGet(results, "Metals")[1], "Gold") = NA
    /\ IsNum(DictGet(DictGet(results, "Metals")[1], "Silver"))
    /\ DictGet(DictGet(results, "Crypto")[1], "Bitcoin") = NA

\* ------------------------------------------------------------------ C15
\* The steps of format_worksheet whose failure ends the category
FormatSteps == {"format_read", "batch_update"}

\* The sheet of the category holds the header and the row of its snapshot
HoldsSnapshotRow(i) ==
    LET c == CatAt(i)
        rows == sheets[c].rows
    IN  /\ RowWritten(c)
        /\ Len(rows[1]) = Len(rows[2])
        /\ rows[1][1] = Str("Date")
        /\ rows[2][1] = DictGet(SnapAt(i), "Date")
        /\ \A f \in FieldsAt(i) \cup {"Market Analysis"} :
             /\ HasColumn(rows, f)
             /\ rows[2][ColumnOf(rows, f)] = DictGet(SnapAt(i), f)

C15_FormatState ==
    /\ \A c \in Categories : rowWrites[c] <= 1
    /\ \A i \in DataIndex :
         LET c == CatAt(i) IN
         /\ failedAt[c] \in FormatSteps => rowWrites[c] = 1
         /\ rowWrites[c] = 1
            => /\ HoldsSnapshotRow(i)
               /\ modifiedBy[c] = {attempts}
               /\ pc \notin {"except", "run"} \cup FetchPcs
               /\ outcome # "raised"

C15_FormatStep ==
    \A c \in Categories :
      rowWrites[c] = 1 => /\ sheets'[c] = sheets[c]
                          /\ rowWrites'[c] = 1
                          /\ attempts' = attempts

\* C15: once the header and the row of a category are written, a failure of
\* a formatting call (the formatting read, the batch update, an auto-resize)
\* leaves them as written, and the row of that category is not written
\* again in this run: no later step changes the sheet, no further pass
\* starts.
C15_FormatFailureKeepsRow == []C15_FormatState /\ [][C15_FormatStep]_vars

\* The batch update of the first category and the formatting read of the
\* second failed; the run succeeded with both rows in place.
C15_Witness ==
    /\ outcome = "success"
    /\ Len(data) = 2
    /\ failedAt[CatAt(1)] = "batch_update"
    /\ failedAt[CatAt(2)] = "format_read"
    /\ HoldsSnapshotRow(1)
    /\ HoldsSnapshotRow(2)
    /\ formatted = {}

\* ------------------------------------------------------------------ C16
SomeCategoryFailed == \E c \in Categories : failedAt[c] # "none"

C16_FailedCategoryState ==
    SomeCategoryFailed
    => /\ pc \notin {"except", "run"} \cup FetchPcs
       /\ error = "none"
       /\ outcome # "raised"
       /\ attempts = retry_count + 1
       /\ pc = "done" => outcome = "success"

C16_FailedCategoryStep ==
    SomeCategoryFailed
    => /\ attempts' = attempts
       /\ retry_count' = retry_count
       /\ pc = "category" /\ ucat > Len(data) => pc' = "returned"
       /\ pc = "returned" => outcome' = "success" /\ pc' = "done"

\* C16: when the spreadsheet was opened and a category failed at any of its
\* steps, the pass does not raise: update_google_sheet returns, run() ends
\* with success at that pass, and no further pass is started.
C16_CategoryFailureIsNotRunFailure ==
    []C16_FailedCategoryState /\ [][C16_FailedCategoryStep]_vars

\* Every category failed, one at its sheet lookup and one at its row write,
\* and run() succeeded at its first pass.
C16_Witness ==
    /\ outcome = "success"
    /\ attempts = 1
    /\ Len(data) = 2
    /\ failedAt[CatAt(1)] = "worksheet"
    /\ failedAt[CatAt(2)] = "append_row"

\* ------------------------------------------------------------------ C17
C17_OpenFailureState ==
    /\ error = "APIError"
       => /\ pc \in {"except", "done"}
          /\ entered = {}
          /\ failedAt = NoFailures
          /\ sheets = sheets0
          /\ \A c \in Categories : modifiedBy[c] = {} /\ rowWrites[c] = 0
          /\ pc = "done" => outcome = "raised" /\ attempts = max_retries
    /\ pc \in StoreCallPcs \ {"open"} => error = "none"

C17_OpenFailureStep ==
    error = "APIError"
    => /\ sheets' = sheets
       /\ pc = "except" /\ retry_count + 1 = max_retries
          => outcome' = "raised" /\ error' = "APIError"

\* C17: when opening the spreadsheet fails, that pass looks up, creates,
\* reads, clears and writes no sheet, the error goes to run()'s retry
\* handling, and when the opening fails at every pass run() raises that
\* error with every sheet as it was.
C17_OpenFailureIsFatal == []C17_OpenFailureState /\ [][C17_OpenFailureStep]_vars

\* The opening failed at each of the three passes over an existing sheet
\* with a prior row, and run() raised.
C17_Witness ==
    /\ outcome = "raised"
    /\ error = "APIError"
    /\ attempts = max_retries
    /\ entered = {}
    /\ \A c \in Categories : HasPriorRow(c) /\ sheets[c] = sheets0[c]

\* ------------------------------------------------------------------ C18
\* C18: when the commentary of a category cannot be produced, the pass does
\* not raise: the category's snapshot is stored with a commentary text and
\* the pass goes on with the next category.
C18_CommentaryFailureIsContained ==
    [][pc = "analysis"
       => /\ pc' = "fetch_category"
          /\ error' = "none"
          /\ DictHas(results', symbols[fcat][1])
          /\ DictHas(DictGet(results', symbols[fcat][1])[1], "Market Analysis")]_vars

\* ------------------------------------------------------------------ C19
\* The header row has the shape the field order of the snapshot gives:
\* the date, each field followed by its WoW column, the commentary
HeaderFollows(header, snapshot) ==
    LET keys == KeysOf(snapshot)
        n == Len(keys) - 2
    IN  /\ n >= 1
        /\ keys[1] = "Date"
        /\ keys[Len(keys)] = "Market Analysis"
        /\ Len(header) = 2 * n + 2
        /\ header[1] = Str("Date")
        /\ \A j \in 1..n :
             /\ header[2 * j] = Str(keys[j + 1])
             /\ header[2 * j + 1] = Str(keys[j + 1] \o " WoW")
        /\ header[2 * n + 2] = Str("Market Analysis")

\* C19: the header row this program writes has the date first, every
\* field of the snapshot (in the snapshot's order) immediately followed by
\* its "<field> WoW" column, and the commentary last, whatever header row
\* the sheet held before (none, one with WoW columns, one without).
C19_HeaderShape ==
    /\ pc \in {"clear", "insert_row", "append_row"}
       => HeaderFollows(HeaderCells(new_headers), prices[1])
    /\ \A i \in DataIndex :
         (modifiedBy[CatAt(i)] # {} /\ Len(sheets[CatAt(i)].rows) >= 1)
         => HeaderFollows(sheets[CatAt(i)].rows[1], SnapAt(i))

\* The sheet held a header row without WoW columns; the header row written
\* over it has them.
C19_Witness ==
    /\ Len(data) = 1
    /\ Len(KeysOf(SnapAt(1))) = 4
    /\ Len(sheets0[CatAt(1)].rows) = 2
    /\ Len(sheets0[CatAt(1)].rows[1]) = 4
    /\ modifiedBy[CatAt(1)] # {}
    /\ Len(sheets[CatAt(1)].rows) >= 1
    /\ Len(sheets[CatAt(1)].rows[1]) = 6
    /\ sheets[CatAt(1)].rows[1][3] = Str("Gold WoW")

\* ------------------------------------------------------------------ C20
\* The pass handed over snapshots in which no instrument has a price
NoPriceFetched ==
    /\ data # <<>>
    /\ \A i \in DataIndex : \A f \in FieldsAt(i) : DictGet(SnapAt(i), f) = NA

CallOrder == <<"worksheet", "add_worksheet", "read", "clear", "insert_row",
               "append_row", "format_read", "batch_update", "auto_resize">>
RankOf(call) == CHOOSE r \in 1..Len(CallOrder) : CallOrder[r] = call
Logged(call) == \E k \in 1..Len(storeLog) : storeLog[k] = call
FirstOf(call) == CHOOSE k \in 1..Len(storeLog) : storeLog[k] = call /\
                   \A j \in 1..(k - 1) : storeLog[j] # call
InSyncPcs == (StoreCallPcs \ {"open"}) \cup {"last_week", "build"}

\* C21: the store calls issued for a category come in the order sheet
\* lookup, creation (only when the lookup found no sheet), read, clear,
\* header write, row write, formatting read, batch format update,
\* auto-resizes, none skipped and none repeated but the auto-resize: so the
\* clear follows the read, the row write follows the header write, and the
\* formatting follows the row write, which has then put the row in place.
C21_StoreCallOrder ==
    /\ storeLog # <<>> => storeLog[1] = "worksheet"
    /\ \A k \in 1..(Len(storeLog) - 1) :
         LET a == storeLog[k]
             b == storeLog[k + 1]
         IN  \/ RankOf(b) = RankOf(a) + 1 /\ a # "worksheet"
             \/ a = "worksheet" /\ b = "add_worksheet"
                   /\ ~sheets0[CatAt(IF ucat > Len(data) THEN Len(data) ELSE ucat)].exists
             \/ a = "worksheet" /\ b = "read"
                   /\ sheets0[CatAt(IF ucat > Len(data) THEN Len(data) ELSE ucat)].exists
             \/ a = "auto_resize" /\ b = "auto_resize"
    /\ Logged("clear") => Logged("read") /\ FirstOf("read") < FirstOf("clear")
    /\ Logged("append_row")
       => Logged("insert_row") /\ FirstOf("insert_row") < FirstOf("append_row")
    /\ pc \in InSyncPcs /\ Logged("format_read")
       => /\ Logged("append_row")
          /\ FirstOf("append_row") < FirstOf("format_read")
          /\ rowWrites[Category] = 1
          /\ Len(sheets[Category].rows) = 2
    /\ pc \in InSyncPcs \ {"worksheet"}
       => storeLog # <<>> /\ (pc \in StoreCallPcs
                                => RankOf(pc) >= RankOf(storeLog[Len(storeLog)]))

\* A missing sheet was created, read, cleared, given its header and its
\* row, and its formatting has reached the auto-resizes.
C21_Witness ==
    /\ pc = "auto_resize"
    /\ col = 2
    /\ storeLog = <<"worksheet", "add_worksheet", "read", "clear", "insert_row",
                    "append_row", "format_read", "batch_update", "auto_resize">>

\* ------------------------------------------------------------------ C22
\* No call of this run has changed a sheet
NothingModified ==
    /\ sheets = sheets0
    /\ \A c \in Categories :
         /\ modifiedBy[c] = {}
         /\ clears[c] = 0 /\ headerWrites[c] = 0 /\ rowWrites[c] = 0

\* C22: over all the passes of one run(), the sheet of a category is
\* cleared at most once, given a header at most once and a row at most
\* once, all by the same pass; a pass that raises, and so every pass that
\* starts, finds every sheet as it was before the run.
C22_AtMostOneWritePerRun ==
    /\ \A c \in Categories :
         /\ clears[c] <= 1 /\ headerWrites[c] <= 1 /\ rowWrites[c] <= 1
         /\ headerWrites[c] <= clears[c] /\ rowWrites[c] <= headerWrites[c]
         /\ Cardinality(modifiedBy[c]) <= 1
         /\ modifiedBy[c] # {} <=> clears[c] = 1
         /\ modifiedBy[c] \subseteq {attempts}
    /\ pc \in {"run", "except", "open"} \cup FetchPcs => NothingModified
    /\ outcome = "raised" => NothingModified

\* The third pass of the run cleared and wrote both sheets, once each,
\* after two passes that raised.
C22_Witness ==
    /\ outcome = "success"
    /\ attempts = 3
    /\ \A c \in Categories :
         /\ HasPriorRow(c)
         /\ clears[c] = 1 /\ headerWrites[c] = 1 /\ rowWrites[c] = 1
         /\ modifiedBy[c] = {3}

\* ------------------------------------------------------------------ C23
\* The steps of a category that come before the clear
StepsBeforeClear == {"worksheet", "add_worksheet", "read", "last_week", "build"}

\* C23: when the synchronisation of a category fails at the sheet lookup,
\* the sheet creation, the history read, the parsing of the prior row or
\* the WoW computation, the rows of its sheet are what they were before:
\* no clear, header write or row write was issued for it.
C23_FailureBeforeClearKeepsSheet ==
    \A i \in DataIndex :
      LET c == CatAt(i) IN
      failedAt[c] \in StepsBeforeClear
      => /\ sheets[c].rows = sheets0[c].rows
         /\ modifiedBy[c] = {}
         /\ clears[c] = 0 /\ headerWrites[c] = 0 /\ rowWrites[c] = 0
         /\ (ucat = i + 1 /\ pc \in {"category", "returned", "done"})
            => /\ ~Logged("clear")
               /\ ~Logged("insert_row")
               /\ ~Logged("append_row")
               /\ storeLog[Len(storeLog)] \in {"worksheet", "add_worksheet", "read"}

\* The WoW computation of a category failed on a prior row holding a zero,
\* and the sheet still holds that row.
C23_Witness ==
    /\ Len(data) = 1
    /\ pc = "returned"
    /\ failedAt[CatAt(1)] = "build"
    /\ Len(sheets0[CatAt(1)].rows) = 3
    /\ sheets[CatAt(1)] = sheets0[CatAt(1)]
    /\ storeLog = <<"worksheet", "read">>

\* ------------------------------------------------------------------ C24
\* The writes that follow the clear
WriteSteps == {"insert_row", "append_row"}

\* What the next run would take as last week's prices from the sheet
NextRunHistory(c) == ParseLastWeek(get_all_values(sheets[c].rows))

\* C24: when the header write or the row write of a category fails after
\* its clear, the sheet holds no data row (nothing, or the new header
\* only), the prior row is gone, no later store call is made for the
\* category, the pass does not raise and run() ends with success; a run
\* that reads the sheet afterwards finds no prior row.
C24_FailedWriteLeavesNoRow ==
    \A i \in DataIndex :
      LET c == CatAt(i) IN
      failedAt[c] \in WriteSteps
      => /\ clears[c] = 1
         /\ rowWrites[c] = 0
         /\ failedAt[c] = "insert_row"
            => sheets[c].rows = <<>> /\ headerWrites[c] = 0
         /\ failedAt[c] = "append_row"
            => /\ Len(sheets[c].rows) = 1
               /\ HeaderFollows(sheets[c].rows[1], SnapAt(i))
               /\ headerWrites[c] = 1
         /\ c \notin formatted
         /\ pc \in InSyncPcs => Category # c
         /\ (ucat = i + 1 /\ pc \in {"category", "returned", "done"})
            => storeLog[Len(storeLog)] = failedAt[c]
         /\ pc \notin {"except", "run"} \cup FetchPcs
         /\ outcome # "raised"
         /\ pc = "done" => outcome = "success"
         /\ Len(get_all_values(sheets[c].rows)) <= 1
         /\ NextRunHistory(c) = [error |-> "none", prices |-> <<>>]

\* Both sheets held a prior row; the header write of the first category and
\* the row write of the second failed, and run() succeeded.
C24_Witness ==
    /\ outcome = "success"
    /\ Len(data) = 2
    /\ \A c \in Categories : HasPriorRow(c)
    /\ failedAt[CatAt(1)] = "insert_row"
    /\ failedAt[CatAt(2)] = "append_row"
    /\ sheets[CatAt(1)].rows = <<>>
    /\ Len(sheets[CatAt(2)].rows) = 1

====
